---- MODULE Spec2Model ----
(***************************************************************************)
(* Model of the template algorithms of algs.h / algs.cpp.                  *)
(*                                                                         *)
(* A caller-owned container v is the state the algorithms work on.  A      *)
(* cursor into a sequence S is a position 1..Len(S)+1; S.begin is 1 and    *)
(* S.end is Len(S)+1, which is never a position of an element.  Each Call  *)
(* action is one call of one algorithm on the whole container, made when   *)
(* no call is under way (op = "idle").  It records the arguments of the    *)
(* call (those the algorithm does not take are set to a fixed value), the  *)
(* container before the call (pre), the container after it (v) and what    *)
(* the call returned (ret for a cursor or an accumulator, res for a bool). *)
(* a0 is the seed of accumulate; cb and ce are the two places given to     *)
(* swap, and the cursors b and e of a call that is followed statement by   *)
(* statement.                                                              *)
(***************************************************************************)
EXTENDS Integers, Sequences, FiniteSets

VARIABLES v, pre, op, x, p, s2, dst, ret, res, a0, cb, ce, cit1, cit2, cmid, pc, rd

vars == <<v, pre, op, x, p, s2, dst, ret, res, a0, cb, ce, cit1, cit2, cmid, pc, rd>>

\* The locals of a call that is followed statement by statement: the cursors
\* it1 and it2 of search (cit1, cit2), mid of binary_search (cmid), the place
\* pc the call has reached, and the set rd of the cursors the last statement
\* dereferenced, each with the sequence it points into ("v" or "s2").
locals == <<cit1, cit2, cmid, pc, rd>>

\* Bounds of the model: longest container, longest second range (the needle
\* of search, the second range of equal), largest value.
MaxLen == 4
MaxLen2 == 3
MaxVal == 2

Vals == 0..MaxVal

SeqsUpTo(n) == UNION {[1..k -> Vals] : k \in 0..n}

\* The unary predicates of test.cpp.
is_even(y) == y % 2 = 0

is_odd(y) == y % 2 /= 0

Preds == {"is_even", "is_odd"}

\* Call of a UnaryPred given by name.
Pred(q, y) == IF q = "is_even" THEN is_even(y) ELSE is_odd(y)

begin(S) == 1

end(S) == Len(S) + 1

----------------------------------------------------------------------------
(* find, algs.h:51-56:  while (b != e && *b != x) ++b;  return b;          *)

RECURSIVE find_wrongtest(_, _, _, _)
find_wrongtest(S, b, e, y) ==
  IF b /= e /\ S[b] = y THEN find_wrongtest(S, b + 1, e, y) ELSE b

RECURSIVE find(_, _, _, _)
find(S, b, e, y) ==
  IF b /= e /\ S[b] /= y THEN find(S, b + 1, e, y) ELSE b

(* rfind, algs.h:67-73:  if (b == e || *b == x) return b;  b++;            *)
(*                       return rfind(b, e, x);                            *)

RECURSIVE rfind_skip(_, _, _, _)
rfind_skip(S, b, e, y) ==
  IF b = e \/ S[b] = y THEN b
  ELSE IF b + 1 = e THEN e ELSE rfind_skip(S, b + 2, e, y)

RECURSIVE rfind(_, _, _, _)
rfind(S, b, e, y) ==
  IF b = e \/ S[b] = y THEN b ELSE rfind(S, b + 1, e, y)

----------------------------------------------------------------------------
(* swap, algs.h:354-358, on two places i and j of the sequence S:          *)
(*   X t = x;  x = y;  y = t;                                              *)
swap_notemp(S, i, j) ==
  LET S1 == [S EXCEPT ![i] = S[j]]
  IN  [S1 EXCEPT ![j] = S1[i]]

swap(S, i, j) ==
  LET t == S[i]
      S1 == [S EXCEPT ![i] = S[j]]
  IN  [S1 EXCEPT ![j] = t]

(* equal, algs.h:36-41:  while (b1 != e) if ( *b1++ != *b2++) return false; *)
(*                       return true;                                      *)
(* The result holds the bool returned and the place b1 has reached.        *)

RECURSIVE equal_lastonly(_, _, _, _, _)
equal_lastonly(S1, b1, e, S2, b2) ==
  IF b1 = e THEN [res |-> TRUE, b1 |-> b1]
  ELSE IF S1[b1] /= S2[b2] /\ b1 + 1 = e
       THEN [res |-> FALSE, b1 |-> b1 + 1]
       ELSE equal_lastonly(S1, b1 + 1, e, S2, b2 + 1)

RECURSIVE equal(_, _, _, _, _)
equal(S1, b1, e, S2, b2) ==
  IF b1 = e THEN [res |-> TRUE, b1 |-> b1]
  ELSE IF S1[b1] /= S2[b2]
       THEN [res |-> FALSE, b1 |-> b1 + 1]
       ELSE equal(S1, b1 + 1, e, S2, b2 + 1)

(* search, algs.h:103-121.  searchMatch is the inner loop                  *)
(*   while ( *it1 == *it2) { ++it1; ++it2;                                  *)
(*     if (it2 == e2) return b1;  if (it1 == e1) return e1; }              *)
(* and yields "found", "tail" for the two returns and "miss" when the loop *)
(* test fails.                                                             *)
RECURSIVE searchMatch_tailfirst(_, _, _, _, _, _)
searchMatch_tailfirst(S1, it1, e1, S2, it2, e2) ==
  IF S1[it1] = S2[it2]
  THEN IF it1 + 1 = e1 THEN "tail"
       ELSE IF it2 + 1 = e2 THEN "found"
       ELSE searchMatch_tailfirst(S1, it1 + 1, e1, S2, it2 + 1, e2)
  ELSE "miss"

RECURSIVE searchMatch(_, _, _, _, _, _)
searchMatch(S1, it1, e1, S2, it2, e2) ==
  IF S1[it1] = S2[it2]
  THEN IF it2 + 1 = e2 THEN "found"
       ELSE IF it1 + 1 = e1 THEN "tail"
       ELSE searchMatch(S1, it1 + 1, e1, S2, it2 + 1, e2)
  ELSE "miss"

RECURSIVE searchLoop(_, _, _, _, _, _)
searchLoop(S1, b1, e1, S2, b2, e2) ==
  IF b1 /= e1
  THEN LET m == searchMatch(S1, b1, e1, S2, b2, e2)
       IN  IF m = "found" THEN b1
           ELSE IF m = "tail" THEN e1
           ELSE searchLoop(S1, b1 + 1, e1, S2, b2, e2)
  ELSE e1

search(S1, b1, e1, S2, b2, e2) ==
  IF b2 = e2 THEN b1 ELSE searchLoop(S1, b1, e1, S2, b2, e2)

(* remove_copy, algs.h:150-157:                                            *)
(*   while (b != e) { if ( *b != x) *d++ = *b;  ++b; }                      *)
(* The function has no return statement.  The result holds the destination *)
(* as written and the place d has reached when control flows off the end.  *)
RECURSIVE remove_copy(_, _, _, _, _, _)
remove_copy(S, b, e, D, d, y) ==
  IF b /= e
  THEN IF S[b] /= y
       THEN remove_copy(S, b + 1, e, [D EXCEPT ![d] = S[b]], d + 1, y)
       ELSE remove_copy(S, b + 1, e, D, d, y)
  ELSE [D |-> D, d |-> d]

(* remove_copy_if, algs.h:169-176:                                         *)
(*   while (b != e) { if (!p(b)) *d++ = *b;  ++b; }                        *)
(* p is called with the cursor b, a position, not with the element *b.     *)
(* The function has no return statement.                                   *)
RECURSIVE remove_copy_if(_, _, _, _, _, _)
remove_copy_if(S, b, e, D, d, q) ==
  IF b /= e
  THEN IF ~Pred(q, b)
       THEN remove_copy_if(S, b + 1, e, [D EXCEPT ![d] = S[b]], d + 1, q)
       ELSE remove_copy_if(S, b + 1, e, D, d, q)
  ELSE [D |-> D, d |-> d]

(* remove, algs.h:190-202:                                                 *)
(*   ForwardIt ret = b;                                                    *)
(*   while (b != e) { if (!( *b == x)) { if (ret != b) *ret = *b; ++ret; }  *)
(*                    ++b; }                                               *)
(*   return ret;                                                           *)
RECURSIVE removeLoop_nostore(_, _, _, _, _)
removeLoop_nostore(S, r, b, e, y) ==
  IF b /= e
  THEN IF ~(S[b] = y)
       THEN removeLoop_nostore(S, r + 1, b + 1, e, y)
       ELSE removeLoop_nostore(S, r, b + 1, e, y)
  ELSE [S |-> S, ret |-> r]

RECURSIVE removeLoop(_, _, _, _, _)
removeLoop(S, r, b, e, y) ==
  IF b /= e
  THEN IF ~(S[b] = y)
       THEN removeLoop(IF r /= b THEN [S EXCEPT ![r] = S[b]] ELSE S,
                       r + 1, b + 1, e, y)
       ELSE removeLoop(S, r, b + 1, e, y)
  ELSE [S |-> S, ret |-> r]

remove(S, b, e, y) == removeLoop(S, b, b, e, y)

(* partition, algs.h:255-272.  partitionAdvance is the first inner loop    *)
(*   while (p( *b)) { ++b; if (b == e) return b; }                          *)
(* partitionRetreat the second                                             *)
(*   do { --e; if (b == e) return b; } while (!p( *e));                     *)
(* each yields the cursor it moved and whether it returned from partition. *)
RECURSIVE partitionAdvance(_, _, _, _)
partitionAdvance(S, b, e, q) ==
  IF Pred(q, S[b])
  THEN IF b + 1 = e THEN [b |-> b + 1, returned |-> TRUE]
       ELSE partitionAdvance(S, b + 1, e, q)
  ELSE [b |-> b, returned |-> FALSE]

partitionRetreat_once(S, b, e, q) ==
  IF b = e - 1 THEN [e |-> e - 1, returned |-> TRUE]
  ELSE [e |-> e - 1, returned |-> FALSE]

RECURSIVE partitionRetreat(_, _, _, _)
partitionRetreat(S, b, e, q) ==
  IF b = e - 1 THEN [e |-> e - 1, returned |-> TRUE]
  ELSE IF ~Pred(q, S[e - 1]) THEN partitionRetreat(S, b, e - 1, q)
  ELSE [e |-> e - 1, returned |-> FALSE]

RECURSIVE partition(_, _, _, _)
partition(S, b, e, q) ==
  IF b /= e
  THEN LET a == partitionAdvance(S, b, e, q)
       IN  IF a.returned THEN [S |-> S, ret |-> a.b]
           ELSE LET r == partitionRetreat(S, a.b, e, q)
                IN  IF r.returned THEN [S |-> S, ret |-> a.b]
                    ELSE partition(swap(S, a.b, r.e), a.b + 1, r.e, q)
  ELSE [S |-> S, ret |-> b]

(* reverse, algs.h:280-287:                                                *)
(*   while (b != e) { --e; if (b != e) swap( *b++, *e); }                   *)
RECURSIVE reverse_nostep(_, _, _)
reverse_nostep(S, b, e) ==
  IF b /= e
  THEN IF b /= e - 1 THEN reverse_nostep(swap(S, b, e - 1), b, e - 1)
       ELSE reverse_nostep(S, b, e - 1)
  ELSE S

RECURSIVE reverse(_, _, _)
reverse(S, b, e) ==
  IF b /= e
  THEN IF b /= e - 1 THEN reverse(swap(S, b, e - 1), b + 1, e - 1)
       ELSE reverse(S, b, e - 1)
  ELSE S

(* binary_search, algs.h:333-346:                                          *)
(*   while (b < e) { RandomIt mid = b + (e - b) / 2;                       *)
(*     if (x < *mid) e = mid; else if ( *mid < x) b = mid + 1;              *)
(*     else return true; }                                                 *)
(*   return false;                                                         *)
RECURSIVE binary_search(_, _, _, _)
binary_search(S, b, e, y) ==
  IF b < e
  THEN LET mid == b + (e - b) \div 2
       IN  IF y < S[mid] THEN binary_search(S, b, mid, y)
           ELSE IF S[mid] < y THEN binary_search(S, mid + 1, e, y)
           ELSE TRUE
  ELSE FALSE

(* binary_search, algs.cpp:183-195: the same loop, with no return after    *)
(* it.  When the loop ends the function flows off its end and the caller   *)
(* reads an indeterminate bool, u.                                         *)
RECURSIVE binary_search_cpp(_, _, _, _, _)
binary_search_cpp(S, b, e, y, u) ==
  IF b < e
  THEN LET mid == b + (e - b) \div 2
       IN  IF y < S[mid] THEN binary_search_cpp(S, b, mid, y, u)
           ELSE IF S[mid] < y THEN binary_search_cpp(S, mid + 1, e, y, u)
           ELSE TRUE
  ELSE u

(* accumulate, algs.h:299-304:  while (b != e) a += *b++;  return a;       *)
(* The result holds the accumulator returned and the place b has reached.  *)
RECURSIVE accumulate_assign(_, _, _, _)
accumulate_assign(S, b, e, acc) ==
  IF b /= e THEN accumulate_assign(S, b + 1, e, S[b])
  ELSE [a |-> acc, b |-> b]

RECURSIVE accumulate(_, _, _, _)
accumulate(S, b, e, acc) ==
  IF b /= e THEN accumulate(S, b + 1, e, acc + S[b])
  ELSE [a |-> acc, b |-> b]

\* A range sorted ascending by <, as binary_search requires.
IsSorted(S) == \A i \in 1..(Len(S) - 1) : ~(S[i + 1] < S[i])

----------------------------------------------------------------------------
Init ==
  /\ v \in SeqsUpTo(MaxLen)
  /\ pre = v
  /\ op = "idle"
  /\ x = 0
  /\ p = "is_even"
  /\ s2 = <<>>
  /\ dst = <<>>
  /\ ret = 0
  /\ res = FALSE
  /\ a0 = 0
  /\ cb = 0
  /\ ce = 0
  /\ cit1 = 0
  /\ cit2 = 0
  /\ cmid = 0
  /\ pc = "none"
  /\ rd = {}

CallFind ==
  \E y \in Vals :
    /\ op = "idle"
    /\ op' = "find"
    /\ x' = y
    /\ pre' = v
    /\ ret' = find(v, begin(v), end(v), y)
    /\ res' = FALSE
    /\ p' = "is_even"
    /\ s2' = <<>>
    /\ dst' = <<>>
    /\ UNCHANGED <<v, a0, cb, ce, locals>>

CallRfind ==
  \E y \in Vals :
    /\ op = "idle"
    /\ op' = "rfind"
    /\ x' = y
    /\ pre' = v
    /\ ret' = rfind(v, begin(v), end(v), y)
    /\ res' = FALSE
    /\ p' = "is_even"
    /\ s2' = <<>>
    /\ dst' = <<>>
    /\ UNCHANGED <<v, a0, cb, ce, locals>>

CallEqual ==
  \E t \in SeqsUpTo(MaxLen2) :
    /\ Len(t) >= Len(v)
    /\ op = "idle"
    /\ op' = "equal"
    /\ s2' = t
    /\ pre' = v
    /\ LET r == equal(v, begin(v), end(v), t, begin(t))
       IN  res' = r.res /\ ret' = r.b1
    /\ x' = 0
    /\ p' = "is_even"
    /\ dst' = <<>>
    /\ UNCHANGED <<v, a0, cb, ce, locals>>

CallSearch ==
  \E t \in SeqsUpTo(MaxLen2) :
    /\ op = "idle"
    /\ op' = "search"
    /\ s2' = t
    /\ pre' = v
    /\ ret' = search(v, begin(v), end(v), t, begin(t), end(t))
    /\ res' = FALSE
    /\ x' = 0
    /\ p' = "is_even"
    /\ dst' = <<>>
    /\ UNCHANGED <<v, a0, cb, ce, locals>>

\* The destination is a buffer of its own, as long as the source, holding
\* fill everywhere before the call.  Flowing off the end of a function that
\* returns a cursor hands the caller an indeterminate cursor, g.
CallRemoveCopy ==
  \E y \in Vals, fill \in Vals, g \in 1..(MaxLen + 1) :
    /\ op = "idle"
    /\ op' = "remove_copy"
    /\ x' = y
    /\ pre' = v
    /\ LET D == [i \in 1..Len(v) |-> fill]
           r == remove_copy(v, begin(v), end(v), D, begin(D), y)
       IN  dst' = r.D
    /\ ret' = g
    /\ res' = FALSE
    /\ p' = "is_even"
    /\ s2' = <<>>
    /\ UNCHANGED <<v, a0, cb, ce, locals>>

CallRemoveCopyIf ==
  \E q \in Preds, fill \in Vals, g \in 1..(MaxLen + 1) :
    /\ op = "idle"
    /\ op' = "remove_copy_if"
    /\ p' = q
    /\ pre' = v
    /\ LET D == [i \in 1..Len(v) |-> fill]
           r == remove_copy_if(v, begin(v), end(v), D, begin(D), q)
       IN  dst' = r.D
    /\ ret' = g
    /\ res' = FALSE
    /\ x' = 0
    /\ s2' = <<>>
    /\ UNCHANGED <<v, a0, cb, ce, locals>>

CallRemove ==
  \E y \in Vals :
    /\ op = "idle"
    /\ op' = "remove"
    /\ x' = y
    /\ pre' = v
    /\ LET r == remove(v, begin(v), end(v), y)
       IN  v' = r.S /\ ret' = r.ret
    /\ res' = FALSE
    /\ p' = "is_even"
    /\ s2' = <<>>
    /\ dst' = <<>>
    /\ UNCHANGED <<a0, cb, ce, locals>>

CallPartition ==
  \E q \in Preds :
    /\ op = "idle"
    /\ op' = "partition"
    /\ p' = q
    /\ pre' = v
    /\ LET r == partition(v, begin(v), end(v), q)
       IN  v' = r.S /\ ret' = r.ret
    /\ res' = FALSE
    /\ x' = 0
    /\ s2' = <<>>
    /\ dst' = <<>>
    /\ UNCHANGED <<a0, cb, ce, locals>>

CallReverse ==
  /\ op = "idle"
  /\ op' = "reverse"
  /\ pre' = v
  /\ v' = reverse(v, begin(v), end(v))
  /\ ret' = 0
  /\ res' = FALSE
  /\ x' = 0
  /\ p' = "is_even"
  /\ s2' = <<>>
  /\ dst' = <<>>
  /\ UNCHANGED <<a0, cb, ce, locals>>

\* binary_search of algs.h, on a sorted range.
CallBinarySearch ==
  \E y \in Vals :
    /\ IsSorted(v)
    /\ op = "idle"
    /\ op' = "binary_search"
    /\ x' = y
    /\ pre' = v
    /\ res' = binary_search(v, begin(v), end(v), y)
    /\ ret' = 0
    /\ p' = "is_even"
    /\ s2' = <<>>
    /\ dst' = <<>>
    /\ UNCHANGED <<v, a0, cb, ce, locals>>

\* binary_search of algs.cpp, on a sorted range.
CallBinarySearchCpp ==
  \E y \in Vals, u \in BOOLEAN :
    /\ IsSorted(v)
    /\ op = "idle"
    /\ op' = "binary_search_cpp"
    /\ x' = y
    /\ pre' = v
    /\ res' = binary_search_cpp(v, begin(v), end(v), y, u)
    /\ ret' = 0
    /\ p' = "is_even"
    /\ s2' = <<>>
    /\ dst' = <<>>
    /\ UNCHANGED <<v, a0, cb, ce, locals>>

\* swap on two places i and j of the container, which may be the same place.
CallSwap ==
  \E i \in 1..Len(v), j \in 1..Len(v) :
    /\ op = "idle"
    /\ op' = "swap"
    /\ cb' = i
    /\ ce' = j
    /\ pre' = v
    /\ v' = swap(v, i, j)
    /\ ret' = 0
    /\ res' = FALSE
    /\ x' = 0
    /\ p' = "is_even"
    /\ s2' = <<>>
    /\ dst' = <<>>
    /\ UNCHANGED <<a0, locals>>

CallAccumulate ==
  \E s \in Vals :
    /\ op = "idle"
    /\ op' = "accumulate"
    /\ a0' = s
    /\ pre' = v
    /\ LET r == accumulate(v, begin(v), end(v), s)
       IN  ret' = r.a /\ cb' = r.b
    /\ res' = FALSE
    /\ x' = 0
    /\ p' = "is_even"
    /\ s2' = <<>>
    /\ dst' = <<>>
    /\ UNCHANGED <<v, ce, locals>>

\* The call has returned and its result has been looked at: the caller is
\* free to make the next call, on the container as the last call left it.
Return ==
  /\ op /= "idle"
  /\ op' = "idle"
  /\ pre' = v
  /\ x' = 0
  /\ p' = "is_even"
  /\ s2' = <<>>
  /\ dst' = <<>>
  /\ ret' = 0
  /\ res' = FALSE
  /\ a0' = 0
  /\ cb' = 0
  /\ ce' = 0
  /\ UNCHANGED <<v, locals>>

Next ==
  \/ CallEqual
  \/ CallFind
  \/ CallRfind
  \/ CallSearch
  \/ CallRemoveCopy
  \/ CallRemoveCopyIf
  \/ CallRemove
  \/ CallPartition
  \/ CallReverse
  \/ CallBinarySearch
  \/ CallBinarySearchCpp
  \/ CallSwap
  \/ CallAccumulate
  \/ Return

Spec == Init /\ [][Next]_vars

----------------------------------------------------------------------------
\* C1: find returns either end with x nowhere in the sequence, or the cursor
\* of an element equal to x with no element equal to x before it.
C1_FindFirstOccurrence ==
  op = "find" =>
    /\ ret \in 1..end(pre)
    /\ v = pre
    /\ \/ ret = end(pre) /\ \A i \in 1..Len(pre) : pre[i] /= x
       \/ /\ ret \in 1..Len(pre)
          /\ pre[ret] = x
          /\ \A i \in 1..(ret - 1) : pre[i] /= x

C1_Witness ==
  /\ op = "find"
  /\ Len(pre) = 3
  /\ ret = 2
  /\ pre[3] = x

C1_WitnessAbsent ==
  /\ op = "find"
  /\ Len(pre) = 3
  /\ ret = end(pre)

\* C2: the recursive rfind returns the same cursor as the iterative find,
\* when x is present (first occurrence) and when it is absent (end).
C2_RfindEqualsFind ==
  op = "rfind" => ret = find(pre, begin(pre), end(pre), x)

C2_Witness ==
  /\ op = "rfind"
  /\ Len(pre) = 3
  /\ ret = 3
  /\ pre[3] = x

----------------------------------------------------------------------------
\* What the claims speak of, said without the algorithms.

\* Number of positions of S that hold y.
Count(S, y) == Cardinality({i \in 1..Len(S) : S[i] = y})

\* S and T hold the same elements, each as often.
SameMultiset(S, T) ==
  /\ Len(S) = Len(T)
  /\ \A y \in Vals : Count(S, y) = Count(T, y)

\* The elements of S other than y, in their order.
Without(S, y) == SelectSeq(S, LAMBDA z : z /= y)

\* The elements of S for which q is false, in their order.
Rejected(S, q) == SelectSeq(S, LAMBDA z : ~Pred(q, z))

\* The needle N lies in H from position i on.
OccursAt(H, N, i) ==
  /\ i + Len(N) - 1 <= Len(H)
  /\ \A k \in 1..Len(N) : H[i + k - 1] = N[k]

\* The positions of the first range at which the two ranges differ.
Mismatches(S, T) == {i \in 1..Len(S) : S[i] /= T[i]}

Min(A) == CHOOSE a \in A : \A b \in A : a <= b

\* C3: on a sorted range binary_search returns true when x occurs in it and
\* false when it does not, on every path, in algs.h and in algs.cpp alike.
C3_BinarySearchDecides ==
  op \in {"binary_search", "binary_search_cpp"} =>
    res = (\E i \in 1..Len(pre) : pre[i] = x)

\* The binary_search of algs.h alone does decide membership.
HeaderBinarySearchDecides ==
  op = "binary_search" => res = (\E i \in 1..Len(pre) : pre[i] = x)

\* The binary_search of algs.cpp is right whenever it answers true for a
\* value that occurs: only the path off the end of the loop is indeterminate.
CppBinarySearchFindsPresent ==
  (op = "binary_search_cpp" /\ \E i \in 1..Len(pre) : pre[i] = x) => res

C5_RemoveCompacts ==
  op = "remove" =>
    /\ ret \in 1..end(pre)
    /\ Len(v) = Len(pre)
    /\ SubSeq(v, 1, ret - 1) = Without(pre, x)
    /\ ret - 1 = Len(pre) - Count(pre, x)

C5_Witness ==
  /\ op = "remove"
  /\ Len(pre) = 4
  /\ pre[1] /= x /\ pre[2] = x /\ pre[3] /= x /\ pre[4] = x
  /\ pre[1] /= pre[3]
  /\ ret = 3

C6_WitnessTailPrefix ==
  /\ op = "search"
  /\ Len(pre) = 3
  /\ Len(s2) = 2
  /\ pre[3] = s2[1]
  /\ ret = end(pre)

\* C7: equal returns true exactly when the elements at every index of the
\* first range equal those of the second, and returns false at the first
\* pair that differs, having read no pair after it.
C7_EqualPairwise ==
  op = "equal" =>
    /\ res = (Mismatches(pre, s2) = {})
    /\ ~res => ret = Min(Mismatches(pre, s2)) + 1
    /\ res => ret = end(pre)

C7_Witness ==
  /\ op = "equal"
  /\ Len(pre) = 3
  /\ ~res
  /\ ret = 3
  /\ pre[3] /= s2[3]

C7_WitnessTrue ==
  /\ op = "equal"
  /\ Len(pre) = 3
  /\ res

\* C8: reverse leaves at each index i the element that was at index n-1-i
\* (counting from 0), so that reversing twice gives the sequence back.
C8_ReverseMirrors ==
  op = "reverse" =>
    /\ Len(v) = Len(pre)
    /\ \A i \in 1..Len(pre) : v[i] = pre[Len(pre) + 1 - i]
    /\ reverse(v, begin(v), end(v)) = pre

C8_Witness ==
  /\ op = "reverse"
  /\ Len(pre) = 4
  /\ pre[1] /= pre[4]
  /\ pre[2] /= pre[3]

C8_WitnessOdd ==
  /\ op = "reverse"
  /\ Len(pre) = 3
  /\ pre[1] /= pre[3]

\* C9: remove_copy writes to the destination, from its start on, the source
\* elements other than x in their order, leaves the source as it was, and
\* returns the cursor one past the last position written.
C9_RemoveCopyReturnsEnd ==
  op = "remove_copy" =>
    /\ v = pre
    /\ ret = begin(dst) + Len(Without(pre, x))
    /\ SubSeq(dst, 1, ret - 1) = Without(pre, x)

\* What remove_copy does keep: the source, and the elements written.
RemoveCopyWrites ==
  op = "remove_copy" =>
    /\ v = pre
    /\ SubSeq(dst, 1, Len(Without(pre, x))) = Without(pre, x)

\* C10: remove_copy_if calls p on each element value, writes to the
\* destination, from its start on, the elements for which p is false in
\* their order, and returns the cursor one past the last position written.
C10_RemoveCopyIfByValue ==
  op = "remove_copy_if" =>
    /\ v = pre
    /\ ret = begin(dst) + Len(Rejected(pre, p))
    /\ SubSeq(dst, 1, ret - 1) = Rejected(pre, p)

\* The elements written alone, whatever is returned.
RemoveCopyIfWritesByValue ==
  op = "remove_copy_if" =>
    SubSeq(dst, 1, Len(Rejected(pre, p))) = Rejected(pre, p)

\* The sum of the elements of S.
RECURSIVE SumSeq(_)
SumSeq(S) == IF S = <<>> THEN 0 ELSE Head(S) + SumSeq(Tail(S))

\* C11: after swap(x, y) x holds what y held and y what x held, so a second
\* swap(x, y) gives both values back, and swap(x, x) leaves x as it was.
C11_SwapExchanges ==
  op = "swap" =>
    /\ v[cb] = pre[ce]
    /\ v[ce] = pre[cb]
    /\ Len(v) = Len(pre)
    /\ \A k \in 1..Len(pre) : k \notin {cb, ce} => v[k] = pre[k]
    /\ swap(v, cb, ce) = pre
    /\ cb = ce => v = pre

C11_Witness ==
  /\ op = "swap"
  /\ cb /= ce
  /\ pre[cb] /= pre[ce]
  /\ v /= pre

C11_WitnessSame ==
  /\ op = "swap"
  /\ cb = ce

\* C12: accumulate returns the seed plus the sum of the elements, having
\* gone over each element once from begin to end; for the empty range it
\* returns the seed, and the sequence is not changed.
C12_AccumulateSums ==
  op = "accumulate" =>
    /\ ret = a0 + SumSeq(pre)
    /\ cb = end(pre)
    /\ pre = <<>> => ret = a0
    /\ v = pre

C12_Witness ==
  /\ op = "accumulate"
  /\ Len(pre) = 4
  /\ a0 = 2
  /\ pre[1] = 1
  /\ pre[4] = 2
  /\ ret = 7

C12_WitnessEmpty ==
  /\ op = "accumulate"
  /\ pre = <<>>
  /\ a0 = 1

----------------------------------------------------------------------------
(* The same algorithms followed statement by statement.  A Start action is *)
(* the call on the whole container: it binds b and e (cb, ce) and the      *)
(* arguments.  A Step action is one statement or one pass of a loop; it    *)
(* leaves in rd the cursors it dereferenced.  At pc = "done" the call has  *)
(* returned ret or res.                                                    *)

\* Bounds of the statement-by-statement model.
StepLen == 4
StepLen2 == 2
StepVal == 1

StepVals == 0..StepVal

StepSeqs(n) == UNION {[1..k -> StepVals] : k \in 0..n}

\* Reading through a cursor.  A cursor outside the sequence has no element:
\* the read is undefined and may give any value.
Deref(S, c) == IF c \in 1..Len(S) THEN {S[c]} ELSE StepVals

StepInit ==
  /\ v \in StepSeqs(StepLen)
  /\ pre = v
  /\ op = "idle"
  /\ x = 0
  /\ p = "is_even"
  /\ s2 = <<>>
  /\ dst = <<>>
  /\ ret = 0
  /\ res = FALSE
  /\ a0 = 0
  /\ cb = 0
  /\ ce = 0
  /\ cit1 = 0
  /\ cit2 = 0
  /\ cmid = 0
  /\ pc = "none"
  /\ rd = {}

\* The call of algorithm f on [v.begin(), v.end()) with value y, predicate q
\* and second sequence t, entered at statement l.
Enter(f, y, q, t, l) ==
  /\ op = "idle"
  /\ op' = f
  /\ x' = y
  /\ p' = q
  /\ s2' = t
  /\ pre' = v
  /\ cb' = begin(v)
  /\ ce' = end(v)
  /\ ret' = IF f = "remove" THEN begin(v) ELSE 0
  /\ pc' = l
  /\ rd' = {}
  /\ UNCHANGED <<v, dst, res, a0, cit1, cit2, cmid>>

StartFind == \E y \in StepVals : Enter("find", y, "is_even", <<>>, "loop")

StartRemove == \E y \in StepVals : Enter("remove", y, "is_even", <<>>, "loop")

StartReverse == Enter("reverse", 0, "is_even", <<>>, "loop")

StartBinarySearch ==
  \E y \in StepVals :
    IsSorted(v) /\ Enter("binary_search", y, "is_even", <<>>, "loop")

StartPartition == \E q \in Preds : Enter("partition", 0, q, <<>>, "loop")

StartSearch ==
  \E t \in StepSeqs(StepLen2) : Enter("search", 0, "is_even", t, "empty")

\* find, algs.h:53-55:  while (b != e && *b != x) ++b;  return b;
StepFind ==
  /\ op = "find" /\ pc = "loop"
  /\ IF cb /= ce
     THEN \E d \in Deref(v, cb) :
            /\ rd' = {<<"v", cb>>}
            /\ IF d /= x
               THEN cb' = cb + 1 /\ UNCHANGED <<pc, ret>>
               ELSE pc' = "done" /\ ret' = cb /\ UNCHANGED cb
     ELSE rd' = {} /\ pc' = "done" /\ ret' = cb /\ UNCHANGED cb
  /\ UNCHANGED <<v, pre, op, x, p, s2, dst, res, a0, ce, cit1, cit2, cmid>>

\* remove, algs.h:193-201, one pass of the loop or the return.
StepRemove ==
  /\ op = "remove" /\ pc = "loop"
  /\ IF cb /= ce
     THEN \E d \in Deref(v, cb) :
            /\ IF ~(d = x)
               THEN /\ rd' = IF ret /= cb THEN {<<"v", cb>>, <<"v", ret>>}
                                          ELSE {<<"v", cb>>}
                    /\ v' = IF ret /= cb /\ ret \in 1..Len(v)
                            THEN [v EXCEPT ![ret] = d] ELSE v
                    /\ ret' = ret + 1
               ELSE rd' = {<<"v", cb>>} /\ UNCHANGED <<v, ret>>
            /\ cb' = cb + 1
            /\ UNCHANGED pc
     ELSE rd' = {} /\ pc' = "done" /\ UNCHANGED <<v, ret, cb>>
  /\ UNCHANGED <<pre, op, x, p, s2, dst, res, a0, ce, cit1, cit2, cmid>>

\* swap( *b, *e) of the statement-by-statement model: the exchange is done
\* when both cursors point at elements.
SwapAt(S, i, j) ==
  IF i \in 1..Len(S) /\ j \in 1..Len(S) THEN swap(S, i, j) ELSE S

\* reverse, algs.h:282-286, one pass of the loop or the return.
StepReverse ==
  /\ op = "reverse" /\ pc = "loop"
  /\ IF cb /= ce
     THEN /\ ce' = ce - 1
          /\ IF cb /= ce - 1
             THEN /\ rd' = {<<"v", cb>>, <<"v", ce - 1>>}
                  /\ v' = SwapAt(v, cb, ce - 1)
                  /\ cb' = cb + 1
             ELSE rd' = {} /\ UNCHANGED <<v, cb>>
          /\ UNCHANGED pc
     ELSE rd' = {} /\ pc' = "done" /\ UNCHANGED <<v, cb, ce>>
  /\ UNCHANGED <<pre, op, x, p, s2, dst, ret, res, a0, cit1, cit2, cmid>>

\* binary_search, algs.h:335-345, one pass of the loop or the return.
StepBinarySearch_nostep ==
  /\ op = "binary_search" /\ pc = "loop"
  /\ IF cb < ce
     THEN LET m == cb + (ce - cb) \div 2
          IN  \E d \in Deref(v, m) :
                /\ cmid' = m
                /\ rd' = {<<"v", m>>}
                /\ IF x < d THEN ce' = m /\ UNCHANGED <<cb, pc, res>>
                   ELSE IF d < x THEN cb' = m /\ UNCHANGED <<ce, pc, res>>
                   ELSE pc' = "done" /\ res' = TRUE /\ UNCHANGED <<cb, ce>>
     ELSE rd' = {} /\ pc' = "done" /\ res' = FALSE /\ UNCHANGED <<cb, ce, cmid>>
  /\ UNCHANGED <<v, pre, op, x, p, s2, dst, ret, a0, cit1, cit2>>

StepBinarySearch ==
  /\ op = "binary_search" /\ pc = "loop"
  /\ IF cb < ce
     THEN LET m == cb + (ce - cb) \div 2
          IN  \E d \in Deref(v, m) :
                /\ cmid' = m
                /\ rd' = {<<"v", m>>}
                /\ IF x < d THEN ce' = m /\ UNCHANGED <<cb, pc, res>>
                   ELSE IF d < x THEN cb' = m + 1 /\ UNCHANGED <<ce, pc, res>>
                   ELSE pc' = "done" /\ res' = TRUE /\ UNCHANGED <<cb, ce>>
     ELSE rd' = {} /\ pc' = "done" /\ res' = FALSE /\ UNCHANGED <<cb, ce, cmid>>
  /\ UNCHANGED <<v, pre, op, x, p, s2, dst, ret, a0, cit1, cit2>>

\* partition, algs.h:257 and 271:  while (b != e) ... return b;
StepPartitionLoop ==
  /\ op = "partition" /\ pc = "loop"
  /\ rd' = {}
  /\ IF cb /= ce
     THEN pc' = "advance" /\ UNCHANGED ret
     ELSE pc' = "done" /\ ret' = cb
  /\ UNCHANGED <<v, pre, op, x, p, s2, dst, res, a0, cb, ce, cit1, cit2, cmid>>

\* partition, algs.h:258-262:  while (p( *b)) { ++b; if (b == e) return b; }
StepPartitionAdvance_nocheck ==
  /\ op = "partition" /\ pc = "advance"
  /\ rd' = {<<"v", cb>>}
  /\ \E d \in Deref(v, cb) :
       IF Pred(p, d)
       THEN cb' = cb + 1 /\ UNCHANGED <<pc, ret>>
       ELSE pc' = "retreat" /\ UNCHANGED <<cb, ret>>
  /\ UNCHANGED <<v, pre, op, x, p, s2, dst, res, a0, ce, cit1, cit2, cmid>>

StepPartitionAdvance ==
  /\ op = "partition" /\ pc = "advance"
  /\ rd' = {<<"v", cb>>}
  /\ \E d \in Deref(v, cb) :
       IF Pred(p, d)
       THEN /\ cb' = cb + 1
            /\ IF cb + 1 = ce
               THEN pc' = "done" /\ ret' = cb + 1
               ELSE UNCHANGED <<pc, ret>>
       ELSE pc' = "retreat" /\ UNCHANGED <<cb, ret>>
  /\ UNCHANGED <<v, pre, op, x, p, s2, dst, res, a0, ce, cit1, cit2, cmid>>

\* partition, algs.h:263-267:
\*   do { --e; if (b == e) return b; } while (!p( *e));
StepPartitionRetreat ==
  /\ op = "partition" /\ pc = "retreat"
  /\ ce' = ce - 1
  /\ IF cb = ce - 1
     THEN rd' = {} /\ pc' = "done" /\ ret' = cb
     ELSE \E d \in Deref(v, ce - 1) :
            /\ rd' = {<<"v", ce - 1>>}
            /\ pc' = IF ~Pred(p, d) THEN "retreat" ELSE "swap"
            /\ UNCHANGED ret
  /\ UNCHANGED <<v, pre, op, x, p, s2, dst, res, a0, cb, cit1, cit2, cmid>>

\* partition, algs.h:268-269:  swap( *b, *e);  ++b;
StepPartitionSwap ==
  /\ op = "partition" /\ pc = "swap"
  /\ rd' = {<<"v", cb>>, <<"v", ce>>}
  /\ v' = SwapAt(v, cb, ce)
  /\ cb' = cb + 1
  /\ pc' = "loop"
  /\ UNCHANGED <<pre, op, x, p, s2, dst, ret, res, a0, ce, cit1, cit2, cmid>>

\* search, algs.h:105-106:  if (b2 == e2) return b1;
StepSearchEmpty ==
  /\ op = "search" /\ pc = "empty"
  /\ rd' = {}
  /\ IF begin(s2) = end(s2)
     THEN pc' = "done" /\ ret' = cb
     ELSE pc' = "loop" /\ UNCHANGED ret
  /\ UNCHANGED <<v, pre, op, x, p, s2, dst, res, a0, cb, ce, cit1, cit2, cmid>>

\* search, algs.h:107-109 and 120:
\*   while (b1 != e1) { ForwardIt it1 = b1; ForwardIt it2 = b2; ...
\*   return e1;
StepSearchLoop ==
  /\ op = "search" /\ pc = "loop"
  /\ rd' = {}
  /\ IF cb /= ce
     THEN /\ cit1' = cb
          /\ cit2' = begin(s2)
          /\ pc' = "match"
          /\ UNCHANGED ret
     ELSE pc' = "done" /\ ret' = ce /\ UNCHANGED <<cit1, cit2>>
  /\ UNCHANGED <<v, pre, op, x, p, s2, dst, res, a0, cb, ce, cmid>>

\* search, algs.h:110-118:
\*   while ( *it1 == *it2) { ++it1; ++it2;
\*     if (it2 == e2) return b1;  if (it1 == e1) return e1; }
\*   ++b1;
StepSearchMatch ==
  /\ op = "search" /\ pc = "match"
  /\ rd' = {<<"v", cit1>>, <<"s2", cit2>>}
  /\ \E d1 \in Deref(v, cit1), d2 \in Deref(s2, cit2) :
       IF d1 = d2
       THEN /\ cit1' = cit1 + 1
            /\ cit2' = cit2 + 1
            /\ IF cit2 + 1 = end(s2) THEN pc' = "done" /\ ret' = cb
               ELSE IF cit1 + 1 = ce THEN pc' = "done" /\ ret' = ce
               ELSE UNCHANGED <<pc, ret>>
            /\ UNCHANGED cb
       ELSE /\ cb' = cb + 1
            /\ pc' = "loop"
            /\ UNCHANGED <<cit1, cit2, ret>>
  /\ UNCHANGED <<v, pre, op, x, p, s2, dst, res, a0, ce, cmid>>

\* The call has returned: the caller may make the next call, on the
\* container as this call left it.
StepReturn ==
  /\ op /= "idle" /\ pc = "done"
  /\ op' = "idle"
  /\ pre' = v
  /\ x' = 0
  /\ p' = "is_even"
  /\ s2' = <<>>
  /\ ret' = 0
  /\ res' = FALSE
  /\ cb' = 0
  /\ ce' = 0
  /\ cit1' = 0
  /\ cit2' = 0
  /\ cmid' = 0
  /\ pc' = "none"
  /\ rd' = {}
  /\ UNCHANGED <<v, dst, a0>>

StepNext ==
  \/ StartFind
  \/ StartRemove
  \/ StartReverse
  \/ StartBinarySearch
  \/ StartPartition
  \/ StartSearch
  \/ StepFind
  \/ StepRemove
  \/ StepReverse
  \/ StepBinarySearch
  \/ StepPartitionLoop
  \/ StepPartitionAdvance
  \/ StepPartitionRetreat
  \/ StepPartitionSwap
  \/ StepSearchEmpty
  \/ StepSearchLoop
  \/ StepSearchMatch
  \/ StepReturn

StepSpec == StepInit /\ [][StepNext]_vars

\* The algorithms run to completion in the calling context: a call under
\* way always takes its next statement.
FairStepSpec == StepSpec /\ WF_vars(StepNext)

\* The statement-by-statement run returns what the whole call returns.
StepAgreesWithCall ==
  pc = "done" =>
    /\ op = "find" => ret = find(pre, begin(pre), end(pre), x)
    /\ op = "remove" =>
         LET r == remove(pre, begin(pre), end(pre), x)
         IN  v = r.S /\ ret = r.ret
    /\ op = "reverse" => v = reverse(pre, begin(pre), end(pre))
    /\ op = "binary_search" =>
         res = binary_search(pre, begin(pre), end(pre), x)
    /\ op = "partition" =>
         LET r == partition(pre, begin(pre), end(pre), p)
         IN  v = r.S /\ ret = r.ret
    /\ op = "search" =>
         ret = search(pre, begin(pre), end(pre), s2, begin(s2), end(s2))

\* The algorithms that are followed statement by statement.
StepAlgs == {"find", "remove", "reverse", "binary_search", "partition", "search"}

\* The sequence a dereferenced cursor points into.
Pointee(n) == IF n = "v" THEN v ELSE s2

\* Every cursor the last statement dereferenced points at an element.
DerefInRange == \A d \in rd : d[2] \in 1..Len(Pointee(d[1]))

\* No cursor of the call is before begin or past end.
CursorsInRange ==
  /\ cb \in begin(v)..end(v)
  /\ ce \in begin(v)..end(v)
  /\ op = "remove" => ret \in begin(v)..end(v)
  /\ (op = "search" /\ pc = "match") =>
       cit1 \in begin(v)..Len(v) /\ cit2 \in begin(s2)..Len(s2)

\* In a pass of binary_search that reads *mid, b <= mid < e.
MidInside ==
  (op = "binary_search" /\ pc = "loop" /\ cb < ce) =>
    (cb <= cmid' /\ cmid' < ce /\ rd' = {<<"v", cmid'>>})

\* C13: in every step of every call of search, partition, reverse,
\* binary_search, remove and find, each cursor that is dereferenced lies
\* inside its range (end is never dereferenced), no cursor leaves
\* [begin, end], and the mid of binary_search satisfies b <= mid < e.
C13_DerefInsideRange ==
  /\ [](op \in StepAlgs => DerefInRange /\ CursorsInRange)
  /\ [][MidInside]_vars

C13_Witness ==
  /\ op = "partition"
  /\ pc = "swap"
  /\ Len(v) = 4
  /\ cb = 2
  /\ ce = 3
  /\ rd = {<<"v", 3>>}

C13_WitnessSearchTail ==
  /\ op = "search"
  /\ pc = "done"
  /\ Len(s2) = 2
  /\ rd = {<<"v", Len(v)>>, <<"s2", 1>>}
  /\ ret = end(v)

\* The algorithms C14 speaks of.
LoopAlgs == {"binary_search", "partition", "search", "reverse"}

\* A pass of the loop of binary_search or reverse that does not return
\* brings b and e strictly closer.
PassShrinks ==
  (op \in {"binary_search", "reverse"} /\ pc = "loop" /\ pc' = "loop") =>
    ce' - cb' < ce - cb

\* No statement of partition moves b and e apart, and the statement that
\* ends a pass of the outer loop has brought them strictly closer.
PartitionShrinks ==
  (op = "partition" /\ op' = "partition") =>
    /\ ce' - cb' <= ce - cb
    /\ pc' = "loop" => ce' - cb' < ce - cb

\* A pass of the outer loop of search that does not return advances b1.
SearchAdvances ==
  (op = "search" /\ pc = "match" /\ pc' = "loop") => cb' > cb

\* b and e of partition and reverse never cross, and are equal at return.
MeetExactly ==
  op \in {"partition", "reverse"} =>
    /\ cb <= ce
    /\ pc = "done" => cb = ce

\* C14: every call of binary_search, partition, search and reverse returns;
\* e - b strictly decreases in every pass of binary_search that does not
\* return and in every outer pass of partition and reverse, whose cursors
\* meet without crossing; b1 of search advances in every outer pass.
C14_CallsReturn ==
  /\ (op \in LoopAlgs /\ pc /= "done") ~> (pc = "done")
  /\ [][PassShrinks /\ PartitionShrinks /\ SearchAdvances]_vars
  /\ []MeetExactly

C14_Witness ==
  /\ op = "partition"
  /\ pc = "done"
  /\ Len(v) = 4
  /\ v /= pre
  /\ cb = ce
  /\ ret = 3

====
